---- MODULE Spec2Model ----
(***************************************************************************)
(* sd-notify-adapter: the concurrent pipeline of src/src/main.rs.          *)
(*                                                                         *)
(* Seven long-lived tasks (UDS receiver, HTTP server, event listener,      *)
(* startup timer, watchdog timer, status writer, config writer), the       *)
(* ready barrier and the supervisor run on one cooperative thread          *)
(* (runtime::Builder::new_current_thread, main.rs:260).  A step of the     *)
(* model is the code one task runs between two await points: every         *)
(* channel send, channel receive, sleep and lock acquisition starts a new  *)
(* step, and is disabled while the code would be suspended there.          *)
(*                                                                         *)
(* Time is counted in whole seconds.  A sleep is its remaining time, the   *)
(* watchdog's Instant arithmetic is the time elapsed since last_timestamp. *)
(* A poll takes no time on that scale: a second passes only when every     *)
(* task is suspended.  What arrives from outside (a datagram, an HTTP      *)
(* request, a signal) can arrive between any two steps.                    *)
(***************************************************************************)
EXTENDS Integers, Sequences, FiniteSets, TLC

(***************************************************************************)
(* Bounds of the model.                                                    *)
(***************************************************************************)
\* ADAPTER_CHANNEL_SIZE: the capacity of every mpsc channel.
ChannelSize == 1
\* How many datagrams the workload sends in a run.
MaxDatagrams == 1
\* The longest time the watchdog's elapsed-time counter tells apart.
ElapsedCap == 3

(***************************************************************************)
(* Program constants.                                                      *)
(***************************************************************************)
\* f64::INFINITY as a number of seconds: larger than every finite timeout.
INFINITY == 1000
SECOND_TO_MICROSECOND == 1000000
Tasks == {"uds", "http", "el", "st", "wd", "sw", "cw"}
\* The order of the spawn_task! calls; the barrier is spawned eighth.
Order == <<"uds", "http", "el", "st", "wd", "sw", "cw">>

\* A barrier that counts one token short.
NumHandlesShort == Len(Order) - 1
\* handles.len() after the seven spawn_task! calls.
NumHandles == Len(Order)

Event == {"Ready", "Reloading", "Stopping", "ErrorNumber", "BusError",
          "Watchdog", "WatchdogTrigger", "WatchdogTimeout", "StartTimeout"}

Min(a, b) == IF a < b THEN a ELSE b
Max(a, b) == IF a > b THEN a ELSE b

(***************************************************************************)
(* Seconds: f64 seconds; Add is derived, INFINITY absorbs.                 *)
(***************************************************************************)
SecondsAdd(a, b) == IF a = INFINITY \/ b = INFINITY THEN INFINITY ELSE a + b

(***************************************************************************)
(* message.rs: the lines of a datagram and Message::from_str.  A line is   *)
(* <<key, value>>, split at the first '='; <<"", v>> is a line without     *)
(* '='.  Seconds are whole seconds: the microsecond values the workload    *)
(* sends are whole seconds written in microseconds.                        *)
(***************************************************************************)
\* value.parse::<f64>(): the number, or -1 for a string that is no number.
ParseF64(value) ==
  CASE value = "0" -> 0
    [] value = "1" -> 1
    [] value = "2" -> 2
    [] value = "1000000" -> 1000000
    [] value = "2000000" -> 2000000
    [] OTHER -> -1

\* format!("{}", f64), for the numbers ParseF64 yields.
FormatF64(number) ==
  CASE number = 0 -> "0"
    [] number = 1 -> "1"
    [] number = 2 -> "2"
    [] number = 1000000 -> "1000000"
    [] number = 2000000 -> "2000000"
    [] OTHER -> "?"

\* value.parse::<i32>(): <<TRUE, number>>, or <<FALSE, 0>> for a string that
\* is no i32.  A leading '+' is accepted.
ParseI32(value) ==
  CASE value = "0" -> <<TRUE, 0>>
    [] value = "2" -> <<TRUE, 2>>
    [] value = "+2" -> <<TRUE, 2>>
    [] value = "-2" -> <<TRUE, -2>>
    [] OTHER -> <<FALSE, 0>>

\* format!("{number}") of an i32.
FormatI32(number) ==
  CASE number = 0 -> "0"
    [] number = 2 -> "2"
    [] number = -2 -> "-2"
    [] OTHER -> "?"

\* A Message: its variant and what the variant carries (Seconds, an i32, a
\* String or a NotifyAccess); an Err of from_str is a Message whose type is
\* the name of the error.
Msg(type, sec) == [type |-> type, sec |-> sec, number |-> 0, text |-> ""]

MsgNumber(type, number) ==
  [type |-> type, sec |-> 0, number |-> number, text |-> ""]

MsgText(type, text) == [type |-> type, sec |-> 0, number |-> 0, text |-> text]

\* The micro_second! macro.
MicroSecond(type, value) ==
  IF ParseF64(value) < 0 THEN Msg("MessageParseFloat", 0)
  ELSE Msg(type, ParseF64(value) \div SECOND_TO_MICROSECOND)

\* The parse_message! macro.
ParseMessage(type, value) ==
  IF ParseI32(value)[1] THEN MsgNumber(type, ParseI32(value)[2])
  ELSE Msg("MessageParseInt", 0)

\* NotifyAccess::from_str
NotifyAccessFromStr(value) ==
  IF value \in {"none", "main", "exec", "all"}
  THEN MsgText("NotifyAccess", value)
  ELSE Msg("ParseNotifyAccess", 0)

FromStr(line) ==
  LET key == line[1]
      value == line[2]
  IN CASE key = "" -> Msg("MessageSplit", 0)
       [] key = "READY" /\ value = "1" -> Msg("Ready", 0)
       [] key = "RELOADING" /\ value = "1" -> Msg("Reloading", 0)
       [] key = "STOPPING" /\ value = "1" -> Msg("Stopping", 0)
       [] key = "MONOTONIC_USEC" -> MicroSecond("MonotonicMicrosecond", value)
       [] key = "STATUS" -> MsgText("Status", value)
       [] key = "NOTIFYACCESS" -> NotifyAccessFromStr(value)
       [] key = "ERRNO" -> ParseMessage("ErrorNumber", value)
       [] key = "BUSERROR" -> MsgText("BusError", value)
       [] key = "EXIT_STATUS" -> ParseMessage("ExitStatus", value)
       [] key = "MAINPID" -> ParseMessage("MainPID", value)
       [] key = "WATCHDOG" /\ value = "1" -> Msg("Watchdog", 0)
       [] key = "WATCHDOG" /\ value = "trigger" -> Msg("WatchdogTrigger", 0)
       [] key = "WATCHDOG_USEC" -> MicroSecond("WatchdogMicrosecond", value)
       [] key = "EXTEND_TIMEOUT_USEC" ->
            MicroSecond("ExtendTimeoutMicrosecond", value)
       [] key = "FDSTORE" /\ value = "1" -> Msg("FDStore", 0)
       [] key = "FDSTOREREMOVE" /\ value = "1" -> Msg("FDStoreRemove", 0)
       [] key = "FDNAME" -> MsgText("FDName", value)
       [] key = "FDPOLL" /\ value = "0" -> Msg("FDPoll", 0)
       [] key = "BARRIER" /\ value = "1" -> Msg("Barrier", 0)
       [] OTHER -> Msg("MessageUndefined", 0)

ParseErrors == {"MessageSplit", "MessageParseFloat", "MessageParseInt",
                "ParseNotifyAccess", "MessageUndefined"}

\* An encoder that writes the seconds as they are.
AsSecond(key, sec) == <<key, FormatF64(sec)>>
\* The as_microsecond! macro.
AsMicrosecond(key, sec) == <<key, FormatF64(sec * SECOND_TO_MICROSECOND)>>

\* From<Message> for String: the line "key=value", as <<key, value>>.
StringFrom(message) ==
  LET type == message.type
  IN CASE type = "Ready" -> <<"READY", "1">>
       [] type = "Reloading" -> <<"RELOADING", "1">>
       [] type = "Stopping" -> <<"STOPPING", "1">>
       [] type = "MonotonicMicrosecond" ->
            AsMicrosecond("MONOTONIC_USEC", message.sec)
       [] type = "Status" -> <<"STATUS", message.text>>
       [] type = "NotifyAccess" -> <<"NOTIFYACCESS", message.text>>
       [] type = "ErrorNumber" -> <<"ERRNO", FormatI32(message.number)>>
       [] type = "BusError" -> <<"BUSERROR", message.text>>
       [] type = "ExitStatus" -> <<"EXIT_STATUS", FormatI32(message.number)>>
       [] type = "MainPID" -> <<"MAINPID", FormatI32(message.number)>>
       [] type = "Watchdog" -> <<"WATCHDOG", "1">>
       [] type = "WatchdogTrigger" -> <<"WATCHDOG", "trigger">>
       [] type = "WatchdogMicrosecond" ->
            AsMicrosecond("WATCHDOG_USEC", message.sec)
       [] type = "ExtendTimeoutMicrosecond" ->
            AsMicrosecond("EXTEND_TIMEOUT_USEC", message.sec)
       [] type = "FDStore" -> <<"FDSTORE", "1">>
       [] type = "FDStoreRemove" -> <<"FDSTOREREMOVE", "1">>
       [] type = "FDName" -> <<"FDNAME", message.text>>
       [] type = "FDPoll" -> <<"FDPOLL", "0">>
       [] type = "Barrier" -> <<"BARRIER", "1">>

\* The lines the workload sends.
Lines == { <<"READY", "1">>, <<"STOPPING", "1">>, <<"WATCHDOG", "1">>,
           <<"WATCHDOG_USEC", "0">>, <<"WATCHDOG_USEC", "2000000">>,
           <<"EXTEND_TIMEOUT_USEC", "1000000">>, <<"STATUS", "x">>,
           <<"READY", "0">>, <<"RELOADING", "1">> }

\* The datagrams the workload sends: one line, or one of a few two-line ones.
Datagrams ==
  { <<l>> : l \in Lines } \cup
  { <<<<"READY", "1">>, <<"", "READY">>>>,
    <<<<"WATCHDOG", "1">>, <<"WATCHDOG", "1">>>>,
    <<<<"WATCHDOG_USEC", "0">>, <<"STOPPING", "1">>>>,
    <<<<"WATCHDOG_USEC", "0">>, <<"READY", "1">>>>,
    <<<<"EXTEND_TIMEOUT_USEC", "1000000">>,
      <<"EXTEND_TIMEOUT_USEC", "1000000">>>>,
    <<<<"EXTEND_TIMEOUT_USEC", "2000000">>,
      <<"EXTEND_TIMEOUT_USEC", "1000000">>>> }

\* Every key of the protocol with the values that tell its cases apart, an
\* unknown key, and a line without '='.
AllLines ==
  { <<key, "1">> : key \in {"READY", "RELOADING", "STOPPING", "FDSTORE",
                            "FDSTOREREMOVE", "BARRIER", "FDPOLL", "X"} }
  \cup { <<key, "0">> : key \in {"READY", "FDPOLL", "WATCHDOG", "BARRIER"} }
  \cup { <<key, value>> :
           key \in {"MONOTONIC_USEC", "WATCHDOG_USEC", "EXTEND_TIMEOUT_USEC"},
           value \in {"0", "1000000", "2000000", "x"} }
  \cup { <<key, value>> : key \in {"ERRNO", "EXIT_STATUS", "MAINPID"},
                          value \in {"0", "2", "+2", "-2", "x"} }
  \cup { <<key, value>> : key \in {"STATUS", "BUSERROR", "FDNAME"},
                          value \in {"", "x", "a=b"} }
  \cup { <<"NOTIFYACCESS", value>> :
           value \in {"none", "main", "exec", "all", "x"} }
  \cup { <<"WATCHDOG", "1">>, <<"WATCHDOG", "trigger">>, <<"", "READY">> }

(***************************************************************************)
(* status.rs: ChangeOperation and Change.                                  *)
(***************************************************************************)
ChangeOperation == {"Keep", "SetTrue", "SetFalse"}

Change(h, l, r) == [healthz |-> h, livez |-> l, readyz |-> r]

\* An apply! that takes Keep for Set(false).
ApplyOverwrite(op, current) == op = "SetTrue"
\* The apply! macro of status_writer.
Apply(op, current) ==
  CASE op = "Keep" -> current
    [] op = "SetTrue" -> TRUE
    [] op = "SetFalse" -> FALSE

NoChange == Change("Keep", "Keep", "Keep")

(***************************************************************************)
(* config.rs: the configurations the adapter is started with.              *)
(***************************************************************************)
DefaultLists ==
  [ status_livez_true |-> {"Ready", "Watchdog"},
    status_livez_false |-> {"ErrorNumber", "BusError", "WatchdogTrigger",
                            "WatchdogTimeout", "StartTimeout"},
    status_readyz_true |-> {"Ready", "Watchdog"},
    status_readyz_false |-> {"Reloading", "Stopping", "ErrorNumber",
                             "BusError", "WatchdogTrigger", "WatchdogTimeout",
                             "StartTimeout"},
    status_shutdown |-> {} ]

\* Classifiers that overlap, and a shutdown event.
OverlapLists ==
  [ status_livez_true |-> {"Ready", "Watchdog"},
    status_livez_false |-> {"Ready", "WatchdogTimeout"},
    status_readyz_true |-> {"Ready", "Stopping"},
    status_readyz_false |-> {"Watchdog"},
    status_shutdown |-> {"Stopping", "Watchdog"} ]

NoLists ==
  [ status_livez_true |-> {}, status_livez_false |-> {},
    status_readyz_true |-> {}, status_readyz_false |-> {},
    status_shutdown |-> {} ]

Configuration(lists, allow_watchdog, allow_extend, start, watchdog, initial) ==
  [ allow_message_watchdog_usec |-> allow_watchdog,
    allow_message_extend_timeout_usec |-> allow_extend,
    initial_livez |-> initial,
    initial_readyz |-> initial,
    lists |-> lists,
    unit_timeout_start_sec |-> start,
    unit_watchdog_sec |-> watchdog ]

\* The configurations the adapter is started with.
Configurations ==
  { Configuration(DefaultLists, TRUE, TRUE, 1, 1, FALSE),
    Configuration(OverlapLists, FALSE, TRUE, INFINITY, 0, TRUE),
    Configuration(DefaultLists, TRUE, FALSE, 1, 0, FALSE) }

(***************************************************************************)
(* The state.                                                              *)
(***************************************************************************)
VARIABLES
  config,       \* the configuration cell (SharedConfiguration)
  status,       \* the status cell (SharedStatus)
  committed,    \* the status cell as the last complete Change left it
  started,      \* how many of the eight spawned tasks have been polled once
  pc,           \* where each long-lived task is suspended
  err,          \* the Result each long-lived task returned
  ready_sent,   \* the tasks whose ready token is in, or through, the channel
  ready_q,      \* the tokens in the ready channel
  event_q,      \* the event channel
  watchdog_q,   \* the watchdog channel
  status_q,     \* the status channel
  config_q,     \* the config channel
  shutdown_q,   \* the shutdown channel
  first_error,  \* the first error any task put on the shutdown channel
  token,        \* the CancellationToken is cancelled
  datagrams,    \* how many datagrams the socket has delivered
  uds,          \* process_datagram: messages left, the item being sent;
                \* the extensions it has added up and the changes they made,
                \* the events it has put on the event channel
  el,           \* event_listener: config_lock, the five lists, the event
  st,           \* startup timer: timeout, the sleep, the readyz it read
  wd,           \* watchdog timer: duration, last_timestamp, the sleep
  sw_change,    \* status_writer: the Change being applied
  cw,           \* config_writer: the change being applied; what it has
                \* rejected and how many StartupTimeout changes it has applied
  br,           \* the ready barrier
  sup,          \* the supervisor: the select!, token.cancel(), the join loop
  http_resp,    \* the response the HTTP server is sending
  panicked      \* a task panicked: UnhandledPanic::ShutdownRuntime

vars == <<config, status, committed, started, pc, err, ready_sent, ready_q,
          event_q, watchdog_q, status_q, config_q, shutdown_q, first_error,
          token, datagrams, uds, el, st, wd, sw_change, cw, br, sup,
          http_resp, panicked>>

NoItem == [kind |-> "None", event |-> "", sec |-> 0]
NoConfigurationChange == [kind |-> "None", sec |-> 0]
NoResponse == [served |-> FALSE, healthz |-> FALSE, livez |-> FALSE,
               readyz |-> FALSE, whole |-> TRUE]

\* Status::from_config
StatusFromConfig(c) ==
  [healthz |-> FALSE, livez |-> c.initial_livez, readyz |-> c.initial_readyz]

Init ==
  /\ config \in Configurations
  /\ status = StatusFromConfig(config)
  /\ committed = status
  /\ started = 0
  /\ pc = [t \in Tasks |-> "new"]
  /\ err = [t \in Tasks |-> "none"]
  /\ ready_sent = {}
  /\ ready_q = 0
  /\ event_q = <<>>
  /\ watchdog_q = <<>>
  /\ status_q = <<>>
  /\ config_q = <<>>
  /\ shutdown_q = <<>>
  /\ first_error = "none"
  /\ token = FALSE
  /\ datagrams = 0
  /\ uds = [msgs |-> <<>>, item |-> NoItem, extended |-> 0, changes |-> 0,
            sent |-> <<>>]
  /\ el = [guard |-> FALSE, lists |-> NoLists, event |-> ""]
  /\ st = [timeout |-> 0, sleep_duration |-> 0, sleep |-> 0, slept |-> 0,
           reads |-> 0, ready |-> FALSE, emitted |-> 0]
  /\ wd = [duration |-> 0, elapsed |-> 0, sleep |-> 0]
  /\ sw_change = NoChange
  /\ cw = [change |-> NoConfigurationChange, rejected |-> FALSE,
           applied |-> 0]
  /\ br = [pc |-> "new", count |-> 0]
  /\ sup = [pc |-> "select", woken |-> "none", result |-> "none"]
  /\ http_resp = NoResponse
  /\ panicked = FALSE

(***************************************************************************)
(* Channels and cells.                                                     *)
(***************************************************************************)
\* A bounded channel has room for one more value.
Room(q) == Len(q) < ChannelSize

\* The task's future has completed: what it owned (a Receiver, a lock guard)
\* is dropped.
Returned(t) == pc[t] \in {"report", "done"}

\* tokio's RwLock hands out no read guard while a writer waits or writes.
\* The config writer is at config.write().await exactly when pc is "write".
CanReadConfig == pc["cw"] # "write"

\* The config writer gets the write guard when no read guard is held; the
\* only read guard that lives across an await is the event listener's
\* config_lock (event.rs:80), the others are temporaries.
CanWriteConfig == ~el.guard

\* A status cell without exclusion.
AlwaysReadable == TRUE
\* The status writer holds the write guard from status.write().await to the
\* end of the loop body.
CanReadStatus == pc["sw"] \notin {"apply_healthz", "apply_livez", "apply_readyz"}

(***************************************************************************)
(* spawn_task!: a task that returns Err sends the error on the shutdown    *)
(* channel, and completes when the send has.                               *)
(***************************************************************************)
TaskReturns(t, result) ==
  /\ err' = [err EXCEPT ![t] = result]
  /\ IF result = "Ok"
     THEN /\ pc' = [pc EXCEPT ![t] = "done"]
          /\ UNCHANGED <<shutdown_q, first_error>>
     ELSE IF Room(shutdown_q)
     THEN /\ pc' = [pc EXCEPT ![t] = "done"]
          /\ shutdown_q' = Append(shutdown_q, result)
          /\ first_error' = IF first_error = "none" THEN result ELSE first_error
     ELSE /\ pc' = [pc EXCEPT ![t] = "report"]
          /\ UNCHANGED <<shutdown_q, first_error>>

Report(t) ==
  /\ pc[t] = "report"
  /\ Room(shutdown_q)
  /\ pc' = [pc EXCEPT ![t] = "done"]
  /\ shutdown_q' = Append(shutdown_q, err[t])
  /\ first_error' = IF first_error = "none" THEN err[t] ELSE first_error
  /\ UNCHANGED <<config, status, committed, started, err, ready_sent, ready_q,
                 event_q, watchdog_q, status_q, config_q, token, datagrams,
                 uds, el, st, wd, sw_change, cw, br, sup, http_resp, panicked>>

\* A send that goes on without its token when the channel is full.
SendReadyUnlessFull(t, next) ==
  IF ready_q < ChannelSize
  THEN /\ ready_q' = ready_q + 1
       /\ ready_sent' = ready_sent \cup {t}
       /\ pc' = [pc EXCEPT ![t] = next]
  ELSE /\ pc' = [pc EXCEPT ![t] = next]
       /\ UNCHANGED <<ready_q, ready_sent>>

\* ready_sender.send(()).await at the end of a task's initialisation: the
\* token goes in when the channel has room, else the task waits at "ready".
SendReady(t, next) ==
  IF ready_q < ChannelSize
  THEN /\ ready_q' = ready_q + 1
       /\ ready_sent' = ready_sent \cup {t}
       /\ pc' = [pc EXCEPT ![t] = next]
  ELSE /\ pc' = [pc EXCEPT ![t] = "ready"]
       /\ UNCHANGED <<ready_q, ready_sent>>

\* The first poll of the k-th spawned task.
FirstPoll(t) ==
  /\ started < Len(Order)
  /\ Order[started + 1] = t
  /\ pc[t] = "new"
  /\ started' = started + 1

\* A timer for which no timeout is infinite.
AlwaysDeadline(timeout) == FALSE
\* if timeout == Seconds(INFINITY): the startup timer has no deadline.
NoDeadline(timeout) == timeout = INFINITY

\* A task waiting at ready_sender.send(()).await goes on when there is room.
\* The channel's semaphore serves waiting senders first come, first served,
\* and the tasks reach the send in the order of their first poll.
AfterReady(t) ==
  CASE t = "uds" -> "recv"
    [] t = "http" -> "serve"
    [] t = "el" -> "recv"
    [] t = "st" -> IF NoDeadline(st.timeout) THEN "done" ELSE "sleep"
    [] t = "wd" -> "wait"
    [] t = "sw" -> "recv"
    [] t = "cw" -> "recv"

ReadySend(t) ==
  /\ pc[t] = "ready"
  /\ \A i \in 1..Len(Order) : Order[i] = t =>
        \A j \in 1..(i - 1) : pc[Order[j]] # "ready"
  /\ ready_q < ChannelSize
  /\ ready_q' = ready_q + 1
  /\ ready_sent' = ready_sent \cup {t}
  /\ pc' = [pc EXCEPT ![t] = AfterReady(t)]
  /\ err' = IF AfterReady(t) = "done" THEN [err EXCEPT ![t] = "Ok"] ELSE err
  /\ UNCHANGED <<config, status, committed, started, event_q, watchdog_q,
                  status_q, config_q, shutdown_q, first_error, token,
                  datagrams, uds, el, st, wd, sw_change, cw, br, sup,
                  http_resp, panicked>>

(***************************************************************************)
(* server/uds.rs: the UDS receiver.                                        *)
(***************************************************************************)
\* server(), to the ready token.  Binding the socket can fail.
UdsStart ==
  /\ FirstPoll("uds")
  /\ CanReadConfig
  /\ \E bound \in BOOLEAN :
       IF bound
       THEN /\ SendReady("uds", "recv")
            /\ UNCHANGED <<err, shutdown_q, first_error>>
       ELSE /\ TaskReturns("uds", "UdsCreateSocket")
            /\ UNCHANGED <<ready_q, ready_sent>>
  /\ UNCHANGED <<config, status, committed, event_q, watchdog_q, status_q,
                  config_q, token, datagrams, uds, el, st, wd, sw_change,
                  cw, br, sup, http_resp, panicked>>

\* A match whose last arm sends an event too.
DispatchEvery(message, current_timeout) ==
  CASE message.type = "WatchdogMicrosecond" ->
         [kind |-> "WatchdogTimeout", event |-> "", sec |-> message.sec]
    [] message.type = "ExtendTimeoutMicrosecond" ->
         [kind |-> "StartupTimeout", event |-> "",
          sec |-> SecondsAdd(current_timeout, message.sec)]
    [] OTHER -> [kind |-> "Event", event |-> message.type, sec |-> 0]
\* The match of process_datagram: what a message makes the receiver send.
Dispatch(message, current_timeout) ==
  CASE message.type \in {"Ready", "Reloading", "Stopping", "ErrorNumber",
                         "BusError", "Watchdog", "WatchdogTrigger"} ->
         [kind |-> "Event", event |-> message.type, sec |-> 0]
    [] message.type = "WatchdogMicrosecond" ->
         [kind |-> "WatchdogTimeout", event |-> "", sec |-> message.sec]
    [] message.type = "ExtendTimeoutMicrosecond" ->
         [kind |-> "StartupTimeout", event |-> "",
          sec |-> SecondsAdd(current_timeout, message.sec)]
    [] OTHER -> NoItem

\* A collect that keeps every line.
NoFailures(messages) == {}
\* collect::<Result<Vec<Message>, _>>(): the lines that make it an Err.
Failures(messages) ==
  {i \in 1..Len(messages) : messages[i].type \in ParseErrors}

\* recv_from and the parse of every line of the datagram (collect stops at
\* the first Err).
Receive(datagram) ==
  /\ pc["uds"] = "recv"
  /\ datagrams' = datagrams + 1
  /\ LET messages == [i \in 1..Len(datagram) |-> FromStr(datagram[i])]
         bad == Failures(messages)
     IN IF bad # {}
        THEN /\ TaskReturns("uds",
                  messages[CHOOSE i \in bad : \A j \in bad : i <= j].type)
             /\ UNCHANGED uds
        ELSE /\ uds' = [uds EXCEPT !.msgs = messages]
             /\ pc' = [pc EXCEPT !["uds"] = "msg"]
             /\ UNCHANGED <<err, shutdown_q, first_error>>
  /\ UNCHANGED <<config, status, committed, started, ready_sent, ready_q,
                  event_q, watchdog_q, status_q, config_q, token, el, st,
                  wd, sw_change, cw, br, sup, http_resp, panicked>>

\* A datagram of the workload arrives.
UdsRecv(datagram) ==
  /\ datagrams < MaxDatagrams
  /\ Receive(datagram)

\* A loop that takes the last message first.
IterateBack(msgs) == <<msgs[Len(msgs)], SubSeq(msgs, 1, Len(msgs) - 1)>>
\* for message in messages: the message of this turn and the ones left.
Iterate(msgs) == <<Head(msgs), Tail(msgs)>>

\* One message: config.read().await.echo, and for EXTEND_TIMEOUT_USEC the
\* read of unit_timeout_start_sec; then the send, if the message has one.
UdsDispatch ==
  /\ pc["uds"] = "msg"
  /\ CanReadConfig
  /\ LET item == Dispatch(Iterate(uds.msgs)[1],
                          config.unit_timeout_start_sec)
     IN IF item.kind = "None"
        THEN /\ uds' = [uds EXCEPT !.msgs = Iterate(@)[2]]
             /\ pc' = [pc EXCEPT !["uds"] =
                         IF Len(uds.msgs) = 1 THEN "recv" ELSE "msg"]
        ELSE /\ uds' = [uds EXCEPT !.item = item]
             /\ pc' = [pc EXCEPT !["uds"] = "send"]
  /\ UNCHANGED <<config, status, committed, started, err, ready_sent,
                  ready_q, event_q, watchdog_q, status_q, config_q,
                  shutdown_q, first_error, token, datagrams, el, st, wd,
                  sw_change, cw, br, sup, http_resp, panicked>>

\* send_event! / send_config_change!: waits while the channel is full, fails
\* when its receiver is gone.
UdsSend ==
  /\ pc["uds"] = "send"
  /\ LET item == uds.item
         next == IF Len(uds.msgs) = 1 THEN "recv" ELSE "msg"
         sent == [uds EXCEPT
                    !.msgs = Iterate(@)[2], !.item = NoItem,
                    !.extended = IF item.kind = "StartupTimeout"
                                 THEN SecondsAdd(@, Iterate(uds.msgs)[1].sec)
                                 ELSE @,
                    !.changes = IF item.kind = "StartupTimeout"
                                THEN @ + 1 ELSE @,
                    !.sent = IF item.kind = "Event"
                             THEN Append(@, item.event) ELSE @]
     IN IF item.kind = "Event"
        THEN IF Returned("el")
             THEN /\ TaskReturns("uds", "EventChannelSend")
                  /\ uds' = [uds EXCEPT !.msgs = <<>>, !.item = NoItem]
                  /\ UNCHANGED <<event_q, config_q>>
             ELSE /\ Room(event_q)
                  /\ event_q' = Append(event_q, item.event)
                  /\ uds' = sent
                  /\ pc' = [pc EXCEPT !["uds"] = next]
                  /\ UNCHANGED <<config_q, err, shutdown_q, first_error>>
        ELSE IF Returned("cw")
             THEN /\ TaskReturns("uds", "ConfigChannelSend")
                  /\ uds' = [uds EXCEPT !.msgs = <<>>, !.item = NoItem]
                  /\ UNCHANGED <<event_q, config_q>>
             ELSE /\ Room(config_q)
                  /\ config_q' = Append(config_q,
                                        [kind |-> item.kind, sec |-> item.sec])
                  /\ uds' = sent
                  /\ pc' = [pc EXCEPT !["uds"] = next]
                  /\ UNCHANGED <<event_q, err, shutdown_q, first_error>>
  /\ UNCHANGED <<config, status, committed, started, ready_sent, ready_q,
                  watchdog_q, status_q, token, datagrams, el, st, wd,
                  sw_change, cw, br, sup, http_resp, panicked>>

\* The cancelled branch of the select!, then socket.shutdown.
UdsCancel ==
  /\ pc["uds"] = "recv"
  /\ token
  /\ TaskReturns("uds", "Ok")
  /\ UNCHANGED <<config, status, committed, started, ready_sent, ready_q,
                  event_q, watchdog_q, status_q, config_q, token, datagrams,
                  uds, el, st, wd, sw_change, cw, br, sup, http_resp,
                  panicked>>

(***************************************************************************)
(* server/http.rs: the HTTP server.                                        *)
(***************************************************************************)
\* server(), to the ready token.  Binding the listener can fail.
HttpStart ==
  /\ FirstPoll("http")
  /\ CanReadConfig
  /\ \E bound \in BOOLEAN :
       IF bound
       THEN /\ SendReady("http", "serve")
            /\ UNCHANGED <<err, shutdown_q, first_error>>
       ELSE /\ TaskReturns("http", "HttpBindAddress")
            /\ UNCHANGED <<ready_q, ready_sent>>
  /\ UNCHANGED <<config, status, committed, event_q, watchdog_q, status_q,
                  config_q, token, datagrams, uds, el, st, wd, sw_change,
                  cw, br, sup, http_resp, panicked>>

\* The whole of a Change applied to a status.
ApplyChange(change, s) ==
  [healthz |-> Apply(change.healthz, s.healthz),
   livez |-> Apply(change.livez, s.livez),
   readyz |-> Apply(change.readyz, s.readyz)]

\* The status a reader sees is the cell before, or after, the whole Change
\* the status writer is applying.
WholeSnapshot(s) ==
  \/ s = committed
  \/ /\ pc["sw"] \in {"apply_healthz", "apply_livez", "apply_readyz"}
     /\ s = ApplyChange(sw_change, committed)

\* get_status: the handler of every path takes the read guard and copies
\* the three flags.
Snapshot(s) ==
  [served |-> TRUE, healthz |-> s.healthz, livez |-> s.livez,
   readyz |-> s.readyz, whole |-> WholeSnapshot(s)]

\* A status! macro that inspects healthz whatever the route.
ResponseOfHealthz(path, snapshot) ==
  [code |-> IF snapshot.healthz THEN 200 ELSE 503,
   body |-> [healthz |-> snapshot.healthz, livez |-> snapshot.livez,
             readyz |-> snapshot.readyz]]
\* The status! macro: the code of `path` and the body, from one snapshot.
Response(path, snapshot) ==
  [code |-> IF snapshot[path] THEN 200 ELSE 503,
   body |-> [healthz |-> snapshot.healthz, livez |-> snapshot.livez,
             readyz |-> snapshot.readyz]]

\* GET /healthz, /livez or /readyz: the handler reads the status cell.
HttpGet ==
  /\ pc["http"] = "serve"
  /\ http_resp = NoResponse
  /\ CanReadStatus
  /\ http_resp' = Snapshot(status)
  /\ UNCHANGED <<config, status, committed, started, pc, err, ready_sent,
                  ready_q, event_q, watchdog_q, status_q, config_q,
                  shutdown_q, first_error, token, datagrams, uds, el, st,
                  wd, sw_change, cw, br, sup, panicked>>

\* The handler returns and the response leaves on the connection.
HttpReply ==
  /\ pc["http"] = "serve"
  /\ http_resp # NoResponse
  /\ http_resp' = NoResponse
  /\ UNCHANGED <<config, status, committed, started, pc, err, ready_sent,
                  ready_q, event_q, watchdog_q, status_q, config_q,
                  shutdown_q, first_error, token, datagrams, uds, el, st,
                  wd, sw_change, cw, br, sup, panicked>>

\* with_graceful_shutdown: the server returns once the token is cancelled
\* and the request in flight is answered.
HttpCancel ==
  /\ pc["http"] = "serve"
  /\ http_resp = NoResponse
  /\ token
  /\ TaskReturns("http", "Ok")
  /\ UNCHANGED <<config, status, committed, started, ready_sent, ready_q,
                  event_q, watchdog_q, status_q, config_q, token, datagrams,
                  uds, el, st, wd, sw_change, cw, br, sup, http_resp,
                  panicked>>

(***************************************************************************)
(* event.rs: the event listener.                                           *)
(***************************************************************************)
\* event_listener(), to the ready token: config_lock is taken and the five
\* lists are cloned.  config_lock is a local of the function: the read guard
\* is dropped when the function returns, not before.
ElStart ==
  /\ FirstPoll("el")
  /\ CanReadConfig
  /\ el' = [guard |-> TRUE, lists |-> config.lists, event |-> ""]
  /\ SendReady("el", "recv")
  /\ UNCHANGED <<config, status, committed, err, event_q, watchdog_q,
                  status_q, config_q, shutdown_q, first_error, token,
                  datagrams, uds, st, wd, sw_change, cw, br, sup, http_resp,
                  panicked>>

\* A match without the WatchdogTimeout arm.
WatchdogMessageNoTimeout(event) ==
  CASE event = "Watchdog" -> "KeepAlive"
    [] event = "WatchdogTrigger" -> "Trigger"
    [] OTHER -> "None"

\* The match on the event: the message for the watchdog timer.
WatchdogMessage(event) ==
  CASE event = "Watchdog" -> "KeepAlive"
    [] event = "WatchdogTrigger" -> "Trigger"
    [] event = "WatchdogTimeout" -> "NewTimeout"
    [] OTHER -> "None"

\* A classification in which the true list wins.
LivezTrueWins(event, lists) ==
  LET first == IF event \in lists.status_livez_false THEN "SetFalse" ELSE "Keep"
  IN IF event \in lists.status_livez_true THEN "SetTrue" ELSE first

\* livez_operation: the true list is tested first, the false list second.
LivezOperation(event, lists) ==
  LET first == IF event \in lists.status_livez_true THEN "SetTrue" ELSE "Keep"
  IN IF event \in lists.status_livez_false THEN "SetFalse" ELSE first

\* readyz_operation, likewise.
ReadyzOperation(event, lists) ==
  LET first == IF event \in lists.status_readyz_true THEN "SetTrue" ELSE "Keep"
  IN IF event \in lists.status_readyz_false THEN "SetFalse" ELSE first

\* A listener whose healthz operation follows its readyz operation.
ListenerChangeHealthz(event, lists) ==
  Change(ReadyzOperation(event, lists), LivezOperation(event, lists),
         ReadyzOperation(event, lists))

\* The Change the listener sends for an event.
ListenerChange(event, lists) ==
  Change("Keep", LivezOperation(event, lists), ReadyzOperation(event, lists))

\* The listener returns: config_lock and event_receiver are dropped.
ElReturns(result) ==
  /\ TaskReturns("el", result)
  /\ el' = [el EXCEPT !.guard = FALSE, !.event = ""]
  /\ event_q' = <<>>

\* After the watchdog message: the status_shutdown test (event.rs:121).
ElCheckShutdown(event) ==
  IF event \in el.lists.status_shutdown
  THEN ElReturns("EventShutdown")
  ELSE /\ pc' = [pc EXCEPT !["el"] = "send_status"]
       /\ el' = [el EXCEPT !.event = event]
       /\ UNCHANGED <<err, shutdown_q, first_error>>

\* event_receiver.recv() in the select!.
ElRecv ==
  /\ pc["el"] = "recv"
  /\ event_q # <<>>
  /\ LET event == Head(event_q)
     IN IF WatchdogMessage(event) # "None"
        THEN /\ pc' = [pc EXCEPT !["el"] = "send_wd"]
             /\ el' = [el EXCEPT !.event = event]
             /\ event_q' = Tail(event_q)
             /\ UNCHANGED <<err, shutdown_q, first_error>>
        ELSE /\ ElCheckShutdown(event)
             /\ IF event \in el.lists.status_shutdown
                THEN TRUE
                ELSE event_q' = Tail(event_q)
  /\ UNCHANGED <<config, status, committed, started, ready_sent, ready_q,
                  watchdog_q, status_q, config_q, token, datagrams, uds, st,
                  wd, sw_change, cw, br, sup, http_resp, panicked>>

\* send_watchdog!
ElSendWatchdog ==
  /\ pc["el"] = "send_wd"
  /\ IF Returned("wd")
     THEN /\ ElReturns("WatchdogChannelSend")
          /\ UNCHANGED watchdog_q
     ELSE /\ Room(watchdog_q)
          /\ watchdog_q' = Append(watchdog_q, WatchdogMessage(el.event))
          /\ ElCheckShutdown(el.event)
          /\ IF el.event \in el.lists.status_shutdown
             THEN TRUE
             ELSE UNCHANGED event_q
  /\ UNCHANGED <<config, status, committed, started, ready_sent, ready_q,
                  status_q, config_q, token, datagrams, uds, st, wd,
                  sw_change, cw, br, sup, http_resp, panicked>>

\* status_sender.send(Change {..})
ElSendStatus ==
  /\ pc["el"] = "send_status"
  /\ IF Returned("sw")
     THEN /\ ElReturns("StatusChannelSend")
          /\ UNCHANGED status_q
     ELSE /\ Room(status_q)
          /\ status_q' = Append(status_q, ListenerChange(el.event, el.lists))
          /\ pc' = [pc EXCEPT !["el"] = "recv"]
          /\ UNCHANGED <<el, event_q, err, shutdown_q, first_error>>
  /\ UNCHANGED <<config, status, committed, started, ready_sent, ready_q,
                  watchdog_q, config_q, token, datagrams, uds, st, wd,
                  sw_change, cw, br, sup, http_resp, panicked>>

\* The cancelled branch of the select!.
ElCancel ==
  /\ pc["el"] = "recv"
  /\ token
  /\ ElReturns("Ok")
  /\ UNCHANGED <<config, status, committed, started, ready_sent, ready_q,
                  watchdog_q, status_q, config_q, token, datagrams, uds, st,
                  wd, sw_change, cw, br, sup, http_resp, panicked>>

(***************************************************************************)
(* timer/startup.rs: the startup timer.                                    *)
(***************************************************************************)
\* timer(), to the ready token and the INFINITY test after it.
StStart ==
  /\ FirstPoll("st")
  /\ CanReadConfig
  /\ LET timeout == config.unit_timeout_start_sec
         next == IF NoDeadline(timeout) THEN "done" ELSE "sleep"
     IN /\ st' = [st EXCEPT
                    !.timeout = timeout,
                    !.sleep_duration = IF NoDeadline(timeout) THEN 0 ELSE timeout,
                    !.sleep = IF NoDeadline(timeout) THEN 0 ELSE timeout]
        /\ SendReady("st", next)
        /\ err' = IF ready_q < ChannelSize /\ next = "done"
                  THEN [err EXCEPT !["st"] = "Ok"] ELSE err
  /\ UNCHANGED <<config, status, committed, event_q, watchdog_q, status_q,
                  config_q, shutdown_q, first_error, token, datagrams, uds,
                  el, wd, sw_change, cw, br, sup, http_resp, panicked>>

\* sleep(sleep_duration) has elapsed.
StWake ==
  /\ pc["st"] = "sleep"
  /\ st.sleep = 0
  /\ pc' = [pc EXCEPT !["st"] = "read_cfg"]
  /\ st' = [st EXCEPT !.slept = @ + st.sleep_duration]
  /\ UNCHANGED <<config, status, committed, started, err, ready_sent,
                  ready_q, event_q, watchdog_q, status_q, config_q,
                  shutdown_q, first_error, token, datagrams, uds, el,
                  wd, sw_change, cw, br, sup, http_resp, panicked>>

\* The cancelled branch of the select! around the sleep.
StCancel ==
  /\ pc["st"] = "sleep"
  /\ token
  /\ TaskReturns("st", "Ok")
  /\ st' = [st EXCEPT !.sleep = 0]
  /\ UNCHANGED <<config, status, committed, started, ready_sent, ready_q,
                  event_q, watchdog_q, status_q, config_q, token, datagrams,
                  uds, el, wd, sw_change, cw, br, sup, http_resp, panicked>>

\* A timer that sleeps for the whole new timeout.
SleepWhole(new_timeout, timeout) == new_timeout
\* A subtraction with its operands exchanged.
SleepReversed(new_timeout, timeout) == timeout - new_timeout
\* Duration::from(new_timeout) - timeout.into()
SleepDifference(new_timeout, timeout) == new_timeout - timeout

\* The re-read of unit_timeout_start_sec after the sleep: break when it is
\* unchanged, else sleep for the difference.  Duration's subtraction panics
\* when the difference is negative, Duration::from_secs_f64 when the new
\* timeout is infinite.
StReadConfig ==
  /\ pc["st"] = "read_cfg"
  /\ CanReadConfig
  /\ LET new_timeout == config.unit_timeout_start_sec
     IN IF st.timeout = new_timeout
        THEN /\ pc' = [pc EXCEPT !["st"] = "read_status"]
             /\ UNCHANGED <<st, panicked, br, sup>>
        ELSE IF SleepDifference(new_timeout, st.timeout) < 0
                \/ new_timeout = INFINITY
        THEN /\ panicked' = TRUE
             /\ pc' = [t \in Tasks |-> "aborted"]
             /\ br' = [br EXCEPT !.pc = "aborted"]
             /\ sup' = [sup EXCEPT !.pc = "aborted"]
             /\ UNCHANGED st
        ELSE /\ st' = [st EXCEPT
                         !.timeout = new_timeout,
                         !.sleep_duration =
                            SleepDifference(new_timeout, st.timeout),
                         !.sleep = SleepDifference(new_timeout, st.timeout)]
             /\ pc' = [pc EXCEPT !["st"] = "sleep"]
             /\ UNCHANGED <<panicked, br, sup>>
  /\ UNCHANGED <<config, status, committed, started, err, ready_sent,
                  ready_q, event_q, watchdog_q, status_q, config_q,
                  shutdown_q, first_error, token, datagrams, uds, el, wd,
                  sw_change, cw, http_resp>>

\* A deadline check that ignores readyz.
AlwaysMissed(ready) == TRUE
\* if !ready: the deadline is missed when readyz is still false.
DeadlineMissed(ready) == ~ready

\* status.read().await.readyz after the break.
StReadStatus ==
  /\ pc["st"] = "read_status"
  /\ CanReadStatus
  /\ st' = [st EXCEPT !.reads = @ + 1, !.ready = status.readyz]
  /\ IF DeadlineMissed(status.readyz)
     THEN /\ pc' = [pc EXCEPT !["st"] = "send"]
          /\ UNCHANGED <<err, shutdown_q, first_error>>
     ELSE TaskReturns("st", "Ok")
  /\ UNCHANGED <<config, status, committed, started, ready_sent, ready_q,
                  event_q, watchdog_q, status_q, config_q, token, datagrams,
                  uds, el, wd, sw_change, cw, br, sup, http_resp, panicked>>

\* event_sender.send(Event::StartTimeout)
StSend ==
  /\ pc["st"] = "send"
  /\ IF Returned("el")
     THEN /\ TaskReturns("st", "EventChannelSend")
          /\ UNCHANGED <<event_q, st>>
     ELSE /\ Room(event_q)
          /\ event_q' = Append(event_q, "StartTimeout")
          /\ st' = [st EXCEPT !.emitted = @ + 1]
          /\ TaskReturns("st", "Ok")
  /\ UNCHANGED <<config, status, committed, started, ready_sent, ready_q,
                  watchdog_q, status_q, config_q, token, datagrams, uds, el,
                  wd, sw_change, cw, br, sup, http_resp, panicked>>

(***************************************************************************)
(* timer/watchdog.rs: the watchdog timer.                                  *)
(***************************************************************************)
\* timer(), to the ready token: duration is read and last_timestamp is now.
WdStart ==
  /\ FirstPoll("wd")
  /\ CanReadConfig
  /\ wd' = [duration |-> config.unit_watchdog_sec, elapsed |-> 0,
            sleep |-> config.unit_watchdog_sec]
  /\ SendReady("wd", "wait")
  /\ UNCHANGED <<config, status, committed, err, event_q, watchdog_q,
                  status_q, config_q, shutdown_q, first_error, token,
                  datagrams, uds, el, st, sw_change, cw, br, sup, http_resp,
                  panicked>>

\* A timeout future that sleeps whatever the duration.
AlwaysArmed(duration) == TRUE
\* The timeout future of the loop: pending for ever when duration is zero.
TimerArmed(duration) == duration # 0

\* Message::Wake: change > duration.  `change` is the whole seconds since
\* last_timestamp; `late` tells whether Instant::now() has moved past them by
\* a fraction of a second.
WakeTimesOut(change, late, duration) ==
  change > duration \/ (late /\ change = duration)

\* The timer returns: watchdog_receiver is dropped.
WdReturns(result) ==
  /\ TaskReturns("wd", result)
  /\ wd' = [duration |-> 0, elapsed |-> 0, sleep |-> 0]
  /\ watchdog_q' = <<>>

\* A timer that keeps its last_timestamp whatever the message.
StaleTimestamp(message, elapsed) == elapsed
\* The time since last_timestamp once the message is handled: KeepAlive and
\* Trigger set last_timestamp to now.
LastTimestamp(message, elapsed) ==
  IF message \in {"KeepAlive", "Trigger"} THEN 0 ELSE elapsed

\* watchdog_receiver.recv() in the select!.  Every turn of the loop builds a
\* new sleep(duration).
WdRecv ==
  /\ pc["wd"] = "wait"
  /\ watchdog_q # <<>>
  /\ watchdog_q' = Tail(watchdog_q)
  /\ IF Head(watchdog_q) = "NewTimeout"
     THEN /\ pc' = [pc EXCEPT !["wd"] = "read_cfg"]
          /\ wd' = [wd EXCEPT !.sleep = 0]
     ELSE /\ wd' = [wd EXCEPT
                      !.elapsed = LastTimestamp(Head(watchdog_q), @),
                      !.sleep = wd.duration]
          /\ UNCHANGED pc
  /\ UNCHANGED <<config, status, committed, started, err, ready_sent,
                  ready_q, event_q, status_q, config_q, shutdown_q,
                  first_error, token, datagrams, uds, el, st, sw_change, cw,
                  br, sup, http_resp, panicked>>

\* Message::NewTimeout: config.read().await.unit_watchdog_sec
WdReadConfig ==
  /\ pc["wd"] = "read_cfg"
  /\ CanReadConfig
  /\ wd' = [wd EXCEPT !.duration = config.unit_watchdog_sec,
                      !.sleep = config.unit_watchdog_sec]
  /\ pc' = [pc EXCEPT !["wd"] = "wait"]
  /\ UNCHANGED <<config, status, committed, started, err, ready_sent,
                  ready_q, event_q, watchdog_q, status_q, config_q,
                  shutdown_q, first_error, token, datagrams, uds, el, st,
                  sw_change, cw, br, sup, http_resp, panicked>>

\* The sleep has elapsed: Message::Wake.
WdWake ==
  /\ pc["wd"] = "wait"
  /\ TimerArmed(wd.duration)
  /\ wd.sleep = 0
  /\ \E late \in BOOLEAN :
       IF WakeTimesOut(wd.elapsed, late, wd.duration)
       THEN /\ pc' = [pc EXCEPT !["wd"] = "send"]
            /\ UNCHANGED wd
       ELSE /\ wd' = [wd EXCEPT !.sleep = wd.duration]
            /\ UNCHANGED pc
  /\ UNCHANGED <<config, status, committed, started, err, ready_sent,
                  ready_q, event_q, watchdog_q, status_q, config_q,
                  shutdown_q, first_error, token, datagrams, uds, el, st,
                  sw_change, cw, br, sup, http_resp, panicked>>

\* event_sender.send(Event::WatchdogTimeout)
WdSend ==
  /\ pc["wd"] = "send"
  /\ IF Returned("el")
     THEN /\ WdReturns("EventChannelSend")
          /\ UNCHANGED event_q
     ELSE /\ Room(event_q)
          /\ event_q' = Append(event_q, "WatchdogTimeout")
          /\ wd' = [wd EXCEPT !.sleep = wd.duration]
          /\ pc' = [pc EXCEPT !["wd"] = "wait"]
          /\ UNCHANGED <<watchdog_q, err, shutdown_q, first_error>>
  /\ UNCHANGED <<config, status, committed, started, ready_sent, ready_q,
                  status_q, config_q, token, datagrams, uds, el, st,
                  sw_change, cw, br, sup, http_resp, panicked>>

\* The cancelled branch of the select!.
WdCancel ==
  /\ pc["wd"] = "wait"
  /\ token
  /\ WdReturns("Ok")
  /\ UNCHANGED <<config, status, committed, started, ready_sent, ready_q,
                  event_q, status_q, config_q, token, datagrams, uds, el,
                  st, sw_change, cw, br, sup, http_resp, panicked>>

(***************************************************************************)
(* status.rs: the status writer.                                           *)
(***************************************************************************)
SwStart ==
  /\ FirstPoll("sw")
  /\ SendReady("sw", "recv")
  /\ UNCHANGED <<config, status, committed, err, event_q, watchdog_q,
                  status_q, config_q, shutdown_q, first_error, token,
                  datagrams, uds, el, st, wd, sw_change, cw, br, sup,
                  http_resp, panicked>>

\* status_receiver.recv() in the select!, then status.write().await: no read
\* guard of the status cell lives across an await, so the write guard is
\* granted at once.
SwRecv ==
  /\ pc["sw"] = "recv"
  /\ status_q # <<>>
  /\ sw_change' = Head(status_q)
  /\ status_q' = Tail(status_q)
  /\ pc' = [pc EXCEPT !["sw"] = "apply_healthz"]
  /\ UNCHANGED <<config, status, committed, started, err, ready_sent,
                  ready_q, event_q, watchdog_q, config_q, shutdown_q,
                  first_error, token, datagrams, uds, el, st, wd, cw, br,
                  sup, http_resp, panicked>>

\* status_lock.healthz = apply!(healthz)
SwApplyHealthz ==
  /\ pc["sw"] = "apply_healthz"
  /\ status' = [status EXCEPT !.healthz = Apply(sw_change.healthz, @)]
  /\ pc' = [pc EXCEPT !["sw"] = "apply_livez"]
  /\ UNCHANGED <<config, committed, started, err, ready_sent, ready_q,
                  event_q, watchdog_q, status_q, config_q, shutdown_q,
                  first_error, token, datagrams, uds, el, st, wd, sw_change,
                  cw, br, sup, http_resp, panicked>>

\* status_lock.livez = apply!(livez)
SwApplyLivez ==
  /\ pc["sw"] = "apply_livez"
  /\ status' = [status EXCEPT !.livez = Apply(sw_change.livez, @)]
  /\ pc' = [pc EXCEPT !["sw"] = "apply_readyz"]
  /\ UNCHANGED <<config, committed, started, err, ready_sent, ready_q,
                  event_q, watchdog_q, status_q, config_q, shutdown_q,
                  first_error, token, datagrams, uds, el, st, wd, sw_change,
                  cw, br, sup, http_resp, panicked>>

\* status_lock.readyz = apply!(readyz); the write guard is dropped at the end
\* of the loop body.
SwApplyReadyz ==
  /\ pc["sw"] = "apply_readyz"
  /\ status' = [status EXCEPT !.readyz = Apply(sw_change.readyz, @)]
  /\ committed' = status'
  /\ sw_change' = NoChange
  /\ pc' = [pc EXCEPT !["sw"] = "recv"]
  /\ UNCHANGED <<config, started, err, ready_sent, ready_q, event_q,
                  watchdog_q, status_q, config_q, shutdown_q, first_error,
                  token, datagrams, uds, el, st, wd, cw, br, sup, http_resp,
                  panicked>>

\* The cancelled branch of the select!: status_receiver is dropped.
SwCancel ==
  /\ pc["sw"] = "recv"
  /\ token
  /\ TaskReturns("sw", "Ok")
  /\ status_q' = <<>>
  /\ UNCHANGED <<config, status, committed, started, ready_sent, ready_q,
                  event_q, watchdog_q, config_q, token, datagrams, uds, el,
                  st, wd, sw_change, cw, br, sup, http_resp, panicked>>

(***************************************************************************)
(* config.rs: the config writer.                                           *)
(***************************************************************************)
CwStart ==
  /\ FirstPoll("cw")
  /\ SendReady("cw", "recv")
  /\ UNCHANGED <<config, status, committed, err, event_q, watchdog_q,
                  status_q, config_q, shutdown_q, first_error, token,
                  datagrams, uds, el, st, wd, sw_change, cw, br, sup,
                  http_resp, panicked>>

\* config_receiver.recv() in the select!; the task then waits at
\* config.write().await.
CwRecv ==
  /\ pc["cw"] = "recv"
  /\ config_q # <<>>
  /\ cw' = [cw EXCEPT !.change = Head(config_q)]
  /\ config_q' = Tail(config_q)
  /\ pc' = [pc EXCEPT !["cw"] = "write"]
  /\ UNCHANGED <<config, status, committed, started, err, ready_sent,
                  ready_q, event_q, watchdog_q, status_q, shutdown_q,
                  first_error, token, datagrams, uds, el, st, wd, sw_change,
                  br, sup, http_resp, panicked>>

\* The policy flag that gates a change.
Allowed(change, c) ==
  IF change.kind = "WatchdogTimeout"
  THEN c.allow_message_watchdog_usec
  ELSE c.allow_message_extend_timeout_usec

\* A match that applies every change, whatever the flags.
ApplyUnchecked(change, c) ==
  IF change.kind = "WatchdogTimeout"
  THEN [c EXCEPT !.unit_watchdog_sec = change.sec]
  ELSE [c EXCEPT !.unit_timeout_start_sec = change.sec]

\* The match on the change, under the write guard.
ApplyConfigurationChange(change, c) ==
  IF ~Allowed(change, c) THEN c
  ELSE IF change.kind = "WatchdogTimeout"
  THEN [c EXCEPT !.unit_watchdog_sec = change.sec]
  ELSE [c EXCEPT !.unit_timeout_start_sec = change.sec]

\* The write guard is granted; the change is applied or dropped with a
\* warning, and the guard is dropped at the end of the loop body.
CwWrite ==
  /\ pc["cw"] = "write"
  /\ CanWriteConfig
  /\ config' = ApplyConfigurationChange(cw.change, config)
  /\ cw' = [change |-> NoConfigurationChange,
            rejected |-> cw.rejected \/ ~Allowed(cw.change, config),
            applied |-> IF cw.change.kind = "StartupTimeout"
                           /\ Allowed(cw.change, config)
                        THEN cw.applied + 1 ELSE cw.applied]
  /\ pc' = [pc EXCEPT !["cw"] = "recv"]
  /\ UNCHANGED <<status, committed, started, err, ready_sent, ready_q,
                  event_q, watchdog_q, status_q, config_q, shutdown_q,
                  first_error, token, datagrams, uds, el, st, wd, sw_change,
                  br, sup, http_resp, panicked>>

\* The cancelled branch of the select!: config_receiver is dropped.
CwCancel ==
  /\ pc["cw"] = "recv"
  /\ token
  /\ TaskReturns("cw", "Ok")
  /\ config_q' = <<>>
  /\ UNCHANGED <<config, status, committed, started, ready_sent, ready_q,
                  event_q, watchdog_q, status_q, token, datagrams, uds, el,
                  st, wd, sw_change, cw, br, sup, http_resp, panicked>>

(***************************************************************************)
(* main.rs: the ready barrier (tokio::spawn at main.rs:207).               *)
(***************************************************************************)
BrStart ==
  /\ started = Len(Order)
  /\ br.pc = "new"
  /\ started' = started + 1
  /\ br' = [br EXCEPT !.pc = "wait"]
  /\ UNCHANGED <<config, status, committed, pc, err, ready_sent, ready_q,
                  event_q, watchdog_q, status_q, config_q, shutdown_q,
                  first_error, token, datagrams, uds, el, st, wd, sw_change,
                  cw, sup, http_resp, panicked>>

\* ready_receiver.recv().await, num_handles times.
BrRecv ==
  /\ br.pc = "wait"
  /\ ready_q > 0
  /\ ready_q' = ready_q - 1
  /\ br' = [pc |-> IF br.count + 1 = NumHandles THEN "send" ELSE "wait",
            count |-> br.count + 1]
  /\ UNCHANGED <<config, status, committed, started, pc, err, ready_sent,
                  event_q, watchdog_q, status_q, config_q, shutdown_q,
                  first_error, token, datagrams, uds, el, st, wd, sw_change,
                  cw, sup, http_resp, panicked>>

\* status_sender.send(healthz: Set(true)).await.expect(..): a panic when the
\* status writer is gone, and the runtime shuts down.
BrSend ==
  /\ br.pc = "send"
  /\ IF Returned("sw")
     THEN /\ panicked' = TRUE
          /\ pc' = [t \in Tasks |-> "aborted"]
          /\ br' = [br EXCEPT !.pc = "aborted"]
          /\ sup' = [sup EXCEPT !.pc = "aborted"]
          /\ UNCHANGED status_q
     ELSE /\ Room(status_q)
          /\ status_q' = Append(status_q, Change("SetTrue", "Keep", "Keep"))
          /\ br' = [br EXCEPT !.pc = "done"]
          /\ UNCHANGED <<panicked, pc, sup>>
  /\ UNCHANGED <<config, status, committed, started, err, ready_sent,
                  ready_q, event_q, watchdog_q, config_q, shutdown_q,
                  first_error, token, datagrams, uds, el, st, wd, sw_change,
                  cw, http_resp>>

(***************************************************************************)
(* main.rs: the supervisor, from the select! on.                           *)
(***************************************************************************)
\* A select! whose every branch returns the error argument.
SelectError(branch, error) == error
\* The value of the select!: Ok(()) for a signal, Err(error) for the error
\* received from the shutdown channel.
SelectResult(branch, error) == IF branch = "signal" THEN "Ok" ELSE error

\* One of the eight signals; then token.cancel().
SupSignal ==
  /\ sup.pc = "select"
  /\ sup' = [pc |-> "join", woken |-> "signal",
             result |-> SelectResult("signal", "none")]
  /\ token' = TRUE
  /\ UNCHANGED <<config, status, committed, started, pc, err, ready_sent,
                  ready_q, event_q, watchdog_q, status_q, config_q,
                  shutdown_q, first_error, datagrams, uds, el, st, wd,
                  sw_change, cw, br, http_resp, panicked>>

\* shutdown_receiver.recv(); then token.cancel().
SupError ==
  /\ sup.pc = "select"
  /\ shutdown_q # <<>>
  /\ sup' = [pc |-> "join", woken |-> "error",
             result |-> SelectResult("error", Head(shutdown_q))]
  /\ shutdown_q' = Tail(shutdown_q)
  /\ token' = TRUE
  /\ UNCHANGED <<config, status, committed, started, pc, err, ready_sent,
                  ready_q, event_q, watchdog_q, status_q, config_q,
                  first_error, datagrams, uds, el, st, wd, sw_change, cw,
                  br, http_resp, panicked>>

\* handles.join_next() has returned None: every task, with the send of its
\* error, has completed.  The body returns and the runtime is dropped, the
\* barrier with it.
SupJoin ==
  /\ sup.pc = "join"
  /\ \A t \in Tasks : pc[t] = "done"
  /\ sup' = [sup EXCEPT !.pc = "returned"]
  /\ br' = [br EXCEPT !.pc = IF @ = "done" THEN @ ELSE "aborted"]
  /\ UNCHANGED <<config, status, committed, started, pc, err, ready_sent,
                  ready_q, event_q, watchdog_q, status_q, config_q,
                  shutdown_q, first_error, token, datagrams, uds, el, st,
                  wd, sw_change, cw, http_resp, panicked>>

(***************************************************************************)
(* The specification.                                                      *)
(***************************************************************************)
UdsTask == UdsStart \/ UdsDispatch \/ UdsSend
             \/ UdsCancel
HttpTask == HttpStart \/ HttpReply \/ HttpCancel
ElTask == ElStart \/ ElRecv \/ ElSendWatchdog
            \/ ElSendStatus \/ ElCancel
StTask == StStart \/ StWake \/ StCancel \/ StReadConfig
            \/ StReadStatus \/ StSend
WdTask == WdStart \/ WdRecv \/ WdReadConfig \/ WdWake
            \/ WdSend \/ WdCancel
SwTask == SwStart \/ SwRecv \/ SwApplyHealthz
            \/ SwApplyLivez \/ SwApplyReadyz \/ SwCancel
CwTask == CwStart \/ CwRecv \/ CwWrite \/ CwCancel
BrTask == BrStart \/ BrRecv \/ BrSend
SupTask == SupError \/ SupJoin
\* spawn_task!: the sends every task makes around its body.
Wrapper == \E t \in Tasks : ReadySend(t) \/ Report(t)

\* What the program does on its own.
Program == UdsTask \/ HttpTask \/ ElTask \/ StTask \/ WdTask \/ SwTask
             \/ CwTask \/ BrTask \/ SupTask \/ Wrapper

(***************************************************************************)
(* Time: one second passes.                                                *)
(***************************************************************************)
TickWd ==
  [wd EXCEPT
     !.elapsed = IF pc["wd"] \in {"ready", "wait", "read_cfg", "send"}
                 THEN Min(@ + 1, ElapsedCap) ELSE @,
     !.sleep = IF pc["wd"] = "wait" THEN Max(@ - 1, 0) ELSE @]

TickSt == [st EXCEPT !.sleep = IF pc["st"] = "sleep" THEN Max(@ - 1, 0) ELSE @]

\* A poll takes no time on the scale of the timers: a second passes only when
\* every task is suspended.
Tick ==
  /\ ~ENABLED Program
  /\ TickWd # wd \/ TickSt # st
  /\ wd' = TickWd
  /\ st' = TickSt
  /\ UNCHANGED <<config, status, committed, started, pc, err, ready_sent,
                  ready_q, event_q, watchdog_q, status_q, config_q,
                  shutdown_q, first_error, token, datagrams, uds, el,
                  sw_change, cw, br, sup, http_resp, panicked>>

\* What the workload, the orchestrator and the operator do.
Environment ==
  \/ \E datagram \in Datagrams : UdsRecv(datagram)
  \/ HttpGet
  \/ SupSignal

Next == Program \/ Environment \/ Tick

Spec == Init /\ [][Next]_vars

\* The scheduler polls every task that can run, and time passes.
FairSpec ==
  /\ Spec
  /\ WF_vars(UdsTask) /\ WF_vars(HttpTask) /\ WF_vars(ElTask)
  /\ WF_vars(StTask) /\ WF_vars(WdTask) /\ WF_vars(SwTask)
  /\ WF_vars(CwTask) /\ WF_vars(BrTask) /\ WF_vars(SupTask)
  /\ WF_vars(Wrapper) /\ WF_vars(Tick)

(***************************************************************************)
(* Properties.                                                             *)
(***************************************************************************)
\* C1: healthz is true in the status cell only if each of the seven
\* long-lived tasks has sent its ready token and the ready barrier has
\* consumed all seven.
HealthzOnlyAfterBarrier ==
  status.healthz => /\ ready_sent = Tasks
                    /\ br.count = 7
                    /\ br.pc = "done"

\* The barrier has fired and the status writer has applied its change.
HealthzSet == status.healthz /\ committed.healthz /\ pc["sw"] = "recv"

\* C2: every snapshot an HTTP handler reads is the status before the whole
\* triple of a StatusChange or the status after the whole triple, never a
\* mix of the two.
SnapshotIsWhole == http_resp.served => http_resp.whole

\* A handler has read the status after a change of two flags was applied.
SnapshotAfterChange ==
  /\ http_resp.served
  /\ http_resp.livez /\ http_resp.readyz
  /\ ~config.initial_livez /\ ~config.initial_readyz

\* The operation for an event: Set(false) if the false classifier contains
\* it, otherwise Set(true) if the true classifier does, otherwise Keep.
FalseFirst(event, true_list, false_list) ==
  IF event \in false_list THEN "SetFalse"
  ELSE IF event \in true_list THEN "SetTrue"
  ELSE "Keep"

\* C3: the StatusChange the listener sends for an event e carries, for livez
\* and for readyz, Set(false) if e is in the false classifier, otherwise
\* Set(true) if e is in the true classifier, otherwise Keep.
ClassifiedFalseFirst ==
  [][(pc["el"] = "send_status" /\ pc'["el"] = "recv") =>
       LET sent == status_q'[Len(status_q')]
           lists == config.lists
       IN /\ sent.livez = FalseFirst(el.event, lists.status_livez_true,
                                     lists.status_livez_false)
          /\ sent.readyz = FalseFirst(el.event, lists.status_readyz_true,
                                      lists.status_readyz_false)]_vars

\* The listener has sent Set(false) for an event that both livez
\* classifiers contain.
OverlapSentFalse ==
  /\ pc["el"] = "recv"
  /\ el.event \in config.lists.status_livez_true
                    \cap config.lists.status_livez_false
  /\ status_q # <<>>
  /\ status_q[Len(status_q)] = Change("Keep", "SetFalse", "SetTrue")

\* C4: while allow_message_watchdog_usec is false no step changes
\* unit_watchdog_sec, while allow_message_extend_timeout_usec is false no
\* step changes unit_timeout_start_sec, and the config writer never returns
\* an error: a rejected change is dropped and the writer keeps running.
RejectedChangesDropped ==
  [][/\ ~config.allow_message_watchdog_usec =>
          config'.unit_watchdog_sec = config.unit_watchdog_sec
     /\ ~config.allow_message_extend_timeout_usec =>
          config'.unit_timeout_start_sec = config.unit_timeout_start_sec
     /\ err'["cw"] \in {"none", "Ok"}
     /\ (pc["cw"] = "write" /\ cw'.rejected /\ ~panicked') =>
          pc'["cw"] \in {"write", "recv"}]_vars

\* The config writer has dropped a WATCHDOG_USEC change and waits for the
\* next change.
WatchdogChangeRejected ==
  /\ cw.rejected
  /\ ~config.allow_message_watchdog_usec
  /\ pc["cw"] = "recv"

\* Likewise for an EXTEND_TIMEOUT_USEC change.
ExtendChangeRejected ==
  /\ cw.rejected
  /\ ~config.allow_message_extend_timeout_usec
  /\ pc["cw"] = "recv"

\* C5: while the token is not signalled and the policy flag is true, every
\* ConfigurationChange the UDS receiver enqueues is eventually applied.  A
\* run may end wherever the program can take no step on its own, so the
\* claim needs this of every state: while the config writer holds a change
\* that the flags allow and that it has not applied, and the token is not
\* signalled, the program or its clocks can still move.
AllowedChangeNotStranded ==
  (/\ pc["cw"] = "write"
   /\ Allowed(cw.change, config)
   /\ ApplyConfigurationChange(cw.change, config) # config
   /\ ~token
   /\ ~panicked) => ENABLED (Program \/ Tick)

\* C6: no WatchdogTimeout event is put on the event channel in a state in
\* which the configured unit_watchdog_sec is 0, whether it was 0 at
\* start-up or was set to 0 by an accepted WATCHDOG_USEC=0.
NoTimeoutWhenDisabled ==
  [][event_q' = Append(event_q, "WatchdogTimeout") =>
       config.unit_watchdog_sec # 0]_vars

\* An accepted WATCHDOG_USEC=0 has set unit_watchdog_sec to 0 at runtime, and
\* the timer, woken from the sleep of its earlier duration, has returned
\* without emitting the event.
DisabledAtRuntime ==
  /\ config.unit_watchdog_sec = 0
  /\ config.allow_message_watchdog_usec
  /\ ~cw.rejected
  /\ err["wd"] = "EventChannelSend"
  /\ "WatchdogTimeout" \notin {event_q[i] : i \in 1..Len(event_q)}

\* C7: after the supervisor signals the token, every task eventually returns
\* and the join loop completes.  A run may end wherever the program can take
\* no step on its own, so the claim needs this of every state: once the
\* token is signalled, until the supervisor has returned the program or its
\* clocks can still move.
CancelledRunCanFinish ==
  (token /\ ~panicked /\ sup.pc # "returned") => ENABLED (Program \/ Tick)

\* The listener waits to send on the full watchdog channel while the
\* watchdog timer waits to send on the full event channel.
ClosedLoopBlocked ==
  /\ pc["el"] = "send_wd" /\ ~Room(watchdog_q)
  /\ pc["wd"] = "send" /\ ~Room(event_q)

\* C8: the supervisor returns Ok when a signal woke it and the first error
\* of the shutdown channel when an error woke it; when it returns, the token
\* is signalled and every task has completed; and from the select! on, no
\* error a task reports changes the result.
SupervisorResult ==
  /\ [](sup.pc = "returned" =>
          /\ token
          /\ \A t \in Tasks : pc[t] = "done"
          /\ sup.woken = "signal" => sup.result = "Ok"
          /\ sup.woken = "error" =>
               sup.result = first_error /\ first_error # "none")
  /\ [][sup.pc \in {"join", "returned"} => sup'.result = sup.result]_vars

\* The supervisor has returned the first error although another task has
\* reported a different one after it.
ReturnedFirstOfTwoErrors ==
  /\ sup.pc = "returned"
  /\ sup.woken = "error"
  /\ \E t \in Tasks : err[t] \notin {"none", "Ok", sup.result}

\* C9 as stated: a startup timer that has made its deadline check and
\* returned has read readyz once and has emitted a StartTimeout if and only
\* if readyz was false at that read.
StartTimeoutIffNotReady ==
  (Returned("st") /\ st.reads > 0) =>
     /\ st.reads = 1
     /\ st.emitted = 1 <=> ~st.ready

\* C9, amended: the startup timer reads readyz at most once and emits at
\* most one StartTimeout, and only after it read readyz false; when it read
\* readyz false and returned without the event, the event channel was closed
\* and it returned the EventChannelSend error.
StartTimeoutOnlyIfNotReady ==
  /\ st.reads <= 1
  /\ st.emitted <= 1
  /\ st.emitted = 1 => st.reads = 1 /\ ~st.ready
  /\ (Returned("st") /\ st.reads = 1 /\ ~st.ready /\ st.emitted = 0) =>
       err["st"] = "EventChannelSend"
  /\ (Returned("st") /\ st.reads = 1 /\ ~st.ready /\ st.emitted = 1) =>
       err["st"] = "Ok"

\* The startup timer has read readyz false, emitted StartTimeout and
\* returned.
StartTimeoutEmitted ==
  /\ pc["st"] = "done"
  /\ st.reads = 1 /\ ~st.ready
  /\ st.emitted = 1

\* C10: with a watchdog duration d > 0 and WatchdogTimeout in
\* status_livez_false and not in status_shutdown, when no KeepAlive or
\* Trigger has reached the timer for longer than d the timer eventually
\* emits WatchdogTimeout and livez eventually becomes false.  A run may end
\* wherever the program can take no step on its own, so the claim needs this
\* of every state: while the timer, its duration exceeded, still has its
\* WatchdogTimeout to emit and livez is true, the program or its clocks can
\* still move.
ExpiredWatchdogNotStranded ==
  (/\ pc["wd"] = "send"
   /\ wd.duration > 0 /\ wd.elapsed > wd.duration
   /\ "WatchdogTimeout" \in config.lists.status_livez_false
   /\ "WatchdogTimeout" \notin config.lists.status_shutdown
   /\ status.livez
   /\ ~token /\ ~panicked /\ first_error = "none")
     => ENABLED (Program \/ Tick)

AcceptedReadyNotStranded ==
  (/\ pc["uds"] = "msg" /\ Head(uds.msgs).type = "Ready"
   /\ "Ready" \in el.lists.status_livez_true \cap el.lists.status_readyz_true
   /\ "Ready" \notin el.lists.status_livez_false
                       \cup el.lists.status_readyz_false
                       \cup el.lists.status_shutdown
   /\ event_q = <<>> /\ pc["el"] = "recv"
   /\ status_q = <<>> /\ pc["sw"] = "recv"
   /\ pc["wd"] # "send" /\ pc["st"] # "send"
   /\ ~(status.livez /\ status.readyz)
   /\ ~token /\ ~panicked /\ first_error = "none")
     => ENABLED (Program \/ Tick)

\* C13: when the event listener consumes an event that is in
\* status_shutdown, the shutdown check comes first: the step that takes the
\* event from the channel returns the EventShutdown error, and the listener
\* puts neither a watchdog-timer message nor a StatusChange on a channel for
\* that event.
ShutdownCheckFirst ==
  [][/\ (/\ pc["el"] = "recv" /\ event_q # <<>>
         /\ Head(event_q) \in el.lists.status_shutdown
         /\ pc'["el"] \notin {"recv", "aborted"} /\ err'["el"] # "Ok") =>
          /\ err'["el"] = "EventShutdown"
          /\ watchdog_q' = watchdog_q
          /\ status_q' = status_q
     /\ (pc["el"] = "send_wd" /\ el.event \in el.lists.status_shutdown) =>
          watchdog_q' # Append(watchdog_q, WatchdogMessage(el.event))
     /\ (pc["el"] = "send_status" /\ pc'["el"] = "recv") =>
          el.event \notin el.lists.status_shutdown]_vars

\* The listener has returned EventShutdown for a Watchdog event after it
\* sent the KeepAlive for it to the watchdog timer.
KeepAliveBeforeShutdown ==
  /\ err["el"] = "EventShutdown"
  /\ "Watchdog" \in el.lists.status_shutdown
  /\ watchdog_q = <<"KeepAlive">>

\* The configuration the adapter was started with: the classifiers and the
\* policy flags never change.
InitialConfiguration ==
  CHOOSE c \in Configurations :
    /\ c.lists = config.lists
    /\ c.allow_message_watchdog_usec = config.allow_message_watchdog_usec
    /\ c.allow_message_extend_timeout_usec =
         config.allow_message_extend_timeout_usec

\* C14: with allow_message_extend_timeout_usec true, once the UDS receiver
\* has processed its EXTEND_TIMEOUT_USEC messages and the config writer has
\* applied every change they made, unit_timeout_start_sec is its initial
\* value plus the sum of the extensions.
ExtensionsCompound ==
  (/\ config.allow_message_extend_timeout_usec
   /\ pc["uds"] \notin {"msg", "send"}
   /\ uds.changes > 0
   /\ cw.applied = uds.changes) =>
     config.unit_timeout_start_sec =
       SecondsAdd(InitialConfiguration.unit_timeout_start_sec, uds.extended)

\* One extension, sent and applied: the timeout is the initial one plus it.
ExtensionApplied ==
  /\ uds.changes = 1 /\ cw.applied = 1
  /\ uds.extended = 1
  /\ config.unit_timeout_start_sec = 2

\* A line of the datagram fails to parse.
HasBadLine(datagram) ==
  \E i \in 1..Len(datagram) : FromStr(datagram[i]).type \in ParseErrors

\* C15: when a line of a datagram fails to parse, the step that receives the
\* datagram ends the UDS receiver with the parse error, puts no event and no
\* configuration change on a channel and keeps no message of the datagram to
\* dispatch, not even one parsed from a valid line before the bad one; the
\* error goes on the shutdown channel, at once when the channel has room,
\* and a receiver that has returned a parse error dispatches nothing more.
ParseErrorIsFatal ==
  /\ [][\A datagram \in Datagrams :
          (UdsRecv(datagram) /\ HasBadLine(datagram)) =>
            /\ err'["uds"] \in ParseErrors
            /\ pc'["uds"] \in {"report", "done"}
            /\ uds'.msgs = <<>> /\ uds'.item = NoItem
            /\ event_q' = event_q /\ config_q' = config_q
            /\ IF Room(shutdown_q)
               THEN /\ shutdown_q' = Append(shutdown_q, err'["uds"])
                    /\ pc'["uds"] = "done"
               ELSE shutdown_q' = shutdown_q /\ pc'["uds"] = "report"]_vars
  /\ [][err["uds"] \in ParseErrors =>
          /\ err'["uds"] = err["uds"]
          /\ uds'.msgs = <<>> /\ uds'.item = NoItem
          /\ pc'["uds"] \in {"report", "done", "aborted"}
          /\ (pc["uds"] = "report" /\ pc'["uds"] = "done") =>
               shutdown_q' = Append(shutdown_q, err["uds"])]_vars

\* The datagram 'READY=1', then a line without '=': the receiver has
\* returned MessageSplit, the error is the one the supervisor will receive,
\* and the READY=1 before the bad line has produced no event.
ValidLineDropped ==
  /\ err["uds"] = "MessageSplit" /\ pc["uds"] = "done"
  /\ shutdown_q = <<"MessageSplit">> /\ sup.pc = "select"
  /\ status.healthz /\ ~status.livez /\ ~status.readyz
  /\ event_q = <<>> /\ pc["el"] = "recv" /\ status_q = <<>>
  /\ pc["sw"] = "recv"

(***************************************************************************)
(* The UDS receiver on its own: the adapter has started (every task has    *)
(* sent its ready token, the barrier has fired and the status writer has   *)
(* applied its change), and one datagram of one line arrives, any line of  *)
(* the protocol.                                                           *)
(***************************************************************************)
ServingInit ==
  /\ config \in Configurations
  /\ status = [StatusFromConfig(config) EXCEPT !.healthz = TRUE]
  /\ committed = status
  /\ started = NumHandles + 1
  /\ st = [timeout |-> config.unit_timeout_start_sec,
           sleep_duration |-> IF config.unit_timeout_start_sec = INFINITY
                              THEN 0 ELSE config.unit_timeout_start_sec,
           sleep |-> IF config.unit_timeout_start_sec = INFINITY
                     THEN 0 ELSE config.unit_timeout_start_sec,
           slept |-> 0, reads |-> 0, ready |-> FALSE, emitted |-> 0]
  /\ pc = [t \in Tasks |-> AfterReady(t)]
  /\ err = [t \in Tasks |-> IF pc[t] = "done" THEN "Ok" ELSE "none"]
  /\ ready_sent = Tasks
  /\ ready_q = 0
  /\ event_q = <<>>
  /\ watchdog_q = <<>>
  /\ status_q = <<>>
  /\ config_q = <<>>
  /\ shutdown_q = <<>>
  /\ first_error = "none"
  /\ token = FALSE
  /\ datagrams = 0
  /\ uds = [msgs |-> <<>>, item |-> NoItem, extended |-> 0, changes |-> 0,
            sent |-> <<>>]
  /\ el = [guard |-> TRUE, lists |-> config.lists, event |-> ""]
  /\ wd = [duration |-> config.unit_watchdog_sec, elapsed |-> 0,
           sleep |-> config.unit_watchdog_sec]
  /\ sw_change = NoChange
  /\ cw = [change |-> NoConfigurationChange, rejected |-> FALSE,
           applied |-> 0]
  /\ br = [pc |-> "done", count |-> NumHandles]
  /\ sup = [pc |-> "select", woken |-> "none", result |-> "none"]
  /\ http_resp = NoResponse
  /\ panicked = FALSE

MessageNext ==
  \/ \E line \in AllLines : UdsRecv(<<line>>)
  \/ UdsDispatch
  \/ UdsSend

MessageSpec == ServingInit /\ [][MessageNext]_vars

\* The event the protocol assigns to a message, "" when it assigns none.
ExpectedEvent(message) ==
  CASE message.type = "Ready" -> "Ready"
    [] message.type = "Reloading" -> "Reloading"
    [] message.type = "Stopping" -> "Stopping"
    [] message.type = "ErrorNumber" -> "ErrorNumber"
    [] message.type = "BusError" -> "BusError"
    [] message.type = "Watchdog" -> "Watchdog"
    [] message.type = "WatchdogTrigger" -> "WatchdogTrigger"
    [] OTHER -> ""

\* C16: for each parsed message the UDS receiver puts exactly one Event on
\* the event channel, and no configuration change, for READY, RELOADING,
\* STOPPING, ERRNO, BUSERROR, WATCHDOG=1 and WATCHDOG=trigger; exactly one
\* ConfigurationChange, and no event, for WATCHDOG_USEC and
\* EXTEND_TIMEOUT_USEC; and nothing on either channel for every other
\* recognised message.  A step that does not finish a message puts nothing
\* on a channel.
DispatchedOncePerMessage ==
  [][/\ (/\ pc["uds"] \in {"msg", "send"} /\ err'["uds"] = "none"
         /\ uds'.msgs = Tail(uds.msgs)) =>
          LET message == Head(uds.msgs)
          IN CASE ExpectedEvent(message) # "" ->
                    /\ event_q' = Append(event_q, ExpectedEvent(message))
                    /\ config_q' = config_q
               [] message.type = "WatchdogMicrosecond" ->
                    /\ config_q' = Append(config_q,
                                          [kind |-> "WatchdogTimeout",
                                           sec |-> message.sec])
                    /\ event_q' = event_q
               [] message.type = "ExtendTimeoutMicrosecond" ->
                    /\ Len(config_q') = Len(config_q) + 1
                    /\ config_q'[Len(config_q')].kind = "StartupTimeout"
                    /\ SubSeq(config_q', 1, Len(config_q)) = config_q
                    /\ event_q' = event_q
               [] OTHER -> event_q' = event_q /\ config_q' = config_q
     /\ (/\ pc["uds"] \in {"recv", "msg"}
         /\ uds' # uds \/ pc'["uds"] # pc["uds"]
         /\ Len(uds'.msgs) >= Len(uds.msgs)) =>
          event_q' = event_q /\ config_q' = config_q]_vars

\* A recognised message that maps to nothing (STATUS, MAINPID, FDSTORE, ..)
\* has been accepted and processed: the receiver is back at recv_from and
\* both channels are empty.
AcceptedWithoutEffect ==
  /\ datagrams = 1 /\ pc["uds"] = "recv" /\ err["uds"] = "none"
  /\ uds.msgs = <<>>
  /\ event_q = <<>> /\ config_q = <<>>

Routes == {"healthz", "livez", "readyz"}

\* C18: whichever of /healthz, /livez and /readyz is requested, the answer is
\* 200 if and only if the flag of that route is true in the status cell at
\* the read, and 503 otherwise, and the three flags of the body are those of
\* the status cell at that same read.
ProbeAnswersItsFlag ==
  [][(http_resp = NoResponse /\ http_resp' # NoResponse) =>
       \A path \in Routes :
         LET response == Response(path, http_resp')
         IN /\ response.code = IF status[path] THEN 200 ELSE 503
            /\ response.body = status]_vars

\* A request is being answered from a snapshot in which healthz is true and
\* livez is false: /healthz would answer 200 and /livez 503, with the same
\* body.
ProbesDiffer ==
  /\ http_resp.served
  /\ Response("healthz", http_resp).code = 200
  /\ Response("livez", http_resp).code = 503
  /\ Response("healthz", http_resp).body = Response("livez", http_resp).body

\* What a flag is after an operation: its previous value under Keep, v under
\* Set(v).
Expected(op, previous) ==
  IF op = "Keep" THEN previous
  ELSE IF op = "SetTrue" THEN TRUE ELSE FALSE

\* C19: when the status writer has applied a StatusChange, each of the three
\* flags is its value from before the change if the operation for it was
\* Keep and v if it was Set(v); each assignment of the three changes its own
\* flag only; the status cell changes in no other step; and a flag is never
\* anything but true or false.
ChangeAppliedAsGiven ==
  /\ [][(pc["sw"] = "apply_readyz" /\ pc'["sw"] = "recv") =>
          \A flag \in {"healthz", "livez", "readyz"} :
            status'[flag] = Expected(sw_change[flag], committed[flag])]_vars
  /\ [][status' # status =>
          \E flag \in {"healthz", "livez", "readyz"} :
            /\ pc["sw"] = "apply_" \o flag
            /\ status' = [status EXCEPT
                            ![flag] = Expected(sw_change[flag], @)]]_vars
  /\ [](\A flag \in {"healthz", "livez", "readyz"} : status[flag] \in BOOLEAN)

\* The barrier's change (Set(true), Keep, Keep) and a listener's change
\* (Keep, Set(true), Set(true)) have both been applied to a status that
\* started all false.
BothChangesApplied ==
  /\ pc["sw"] = "recv" /\ status_q = <<>>
  /\ status = [healthz |-> TRUE, livez |-> TRUE, readyz |-> TRUE]
  /\ committed = status
  /\ ~config.initial_livez /\ ~config.initial_readyz

\* C20: healthz goes from false to true and never back, so it changes at
\* most once in a run; the step that changes it is the status writer's
\* assignment of healthz while it applies the ready barrier's change
\* (Set(true), Keep, Keep), after the barrier has sent it; every change the
\* event listener sends carries Keep for healthz; and healthz is false until
\* the barrier has sent its change.
HealthzOnlyByBarrier ==
  /\ [][status.healthz => status'.healthz]_vars
  /\ [][status'.healthz # status.healthz =>
          /\ pc["sw"] = "apply_healthz"
          /\ sw_change = Change("SetTrue", "Keep", "Keep")
          /\ br.pc = "done"]_vars
  /\ [][(pc["el"] = "send_status" /\ pc'["el"] = "recv"
            /\ Len(status_q') > Len(status_q)) =>
          status_q'[Len(status_q')].healthz = "Keep"]_vars
  /\ [](\A i \in 1..Len(status_q) :
          status_q[i].healthz # "Keep" =>
            status_q[i] = Change("SetTrue", "Keep", "Keep") /\ br.pc = "done")
  /\ [](status.healthz => br.pc = "done")

\* healthz is true and the writer has just passed over it with Keep while
\* applying a listener's change that sets another flag.
ListenerChangeKeepsHealthz ==
  /\ pc["sw"] = "apply_livez"
  /\ status.healthz
  /\ sw_change.healthz = "Keep"
  /\ sw_change.livez # "Keep" \/ sw_change.readyz # "Keep"

\* C21: once the event listener has cloned the five classifiers and sent its
\* ready token, it holds no read guard of the configuration cell: while it
\* waits for or processes events, the config writer's config.write().await
\* is not blocked by the listener.
ListenerHoldsNoGuard ==
  pc["el"] \in {"recv", "send_wd", "send_status"} =>
    /\ ~el.guard
    /\ pc["cw"] = "write" => CanWriteConfig

\* C22: the closed loop between the event listener and the watchdog timer
\* never deadlocks: in no reachable state is the listener waiting to send a
\* watchdog message on the full watchdog channel while the watchdog timer is
\* waiting to send WatchdogTimeout on the full event channel.
NoClosedLoopDeadlock ==
  ~(/\ pc["el"] = "send_wd" /\ Len(watchdog_q) = ChannelSize
    /\ pc["wd"] = "send" /\ Len(event_q) = ChannelSize)

\* C23: at every deadline check of the startup timer the sleeps it has
\* completed since start-up (the initial one and each one for a difference)
\* add up to the unit_timeout_start_sec it read last; while it sleeps, the
\* completed sleeps and the one under way add up to that value; and a
\* StartTimeout is emitted only after sleeps that add up to the value it
\* read last, which is then the configured one.
SleptIsTimeout ==
  /\ [](pc["st"] \in {"read_cfg", "read_status", "send"} =>
          st.slept = st.timeout)
  /\ [](pc["st"] = "sleep" =>
          /\ st.slept + st.sleep_duration = st.timeout
          /\ st.sleep <= st.sleep_duration)
  /\ [][st'.emitted > st.emitted =>
          /\ st.slept = st.timeout
          /\ st.timeout = config.unit_timeout_start_sec]_vars

\* The timer is at its deadline check, after a sleep of the whole timeout.
AtDeadlineCheck ==
  /\ pc["st"] = "read_status"
  /\ st.slept > 0
  /\ st.slept = st.timeout

\* C24: whenever the startup timer is about to re-read
\* unit_timeout_start_sec, the value in the configuration cell is not less
\* than the one it read before, so the difference it computes is not
\* negative; the sleep durations it has computed are not negative; and the
\* step that re-reads the value does not panic.
SleepNeverNegative ==
  /\ [](pc["st"] = "read_cfg" =>
          /\ config.unit_timeout_start_sec >= st.timeout
          /\ SleepDifference(config.unit_timeout_start_sec, st.timeout) >= 0)
  /\ [](st.sleep_duration >= 0)
  /\ [][(pc["st"] = "read_cfg" /\ pc'["st"] \in {"sleep", "read_status"}) =>
          st'.timeout >= st.timeout /\ ~panicked']_vars

\* The timer has read a timeout that two extensions of one datagram made
\* larger, and sleeps for the difference.
SleepsForDifference ==
  /\ pc["st"] = "sleep"
  /\ st.slept > 0
  /\ st.sleep_duration = st.timeout - st.slept
  /\ st.sleep_duration > 0
  /\ cw.applied = 2

\* C25: with Ready in status_readyz_true and not in status_readyz_false, a
\* Ready event that the UDS receiver sent on the event channel before the
\* startup timer's deadline check, with no other event behind it, keeps the
\* timer from StartTimeout: the deadline check that finds that event
\* dispatched does not go on to send StartTimeout.
ReadyBeforeDeadline ==
  [][(/\ pc["st"] = "read_status" /\ st'.reads > st.reads
      /\ "Ready" \in el.lists.status_readyz_true
      /\ "Ready" \notin el.lists.status_readyz_false
      /\ "Ready" \notin el.lists.status_shutdown
      /\ event_q = <<"Ready">>
      /\ pc["uds"] = "recv" /\ datagrams = MaxDatagrams
      /\ pc["el"] = "recv" /\ pc["wd"] # "send"
      /\ ~token /\ ~panicked /\ first_error = "none")
       => pc'["st"] # "send"]_vars

\* The StartTimeout of a timer that read readyz while the Ready event was on
\* its way has been emitted, and readyz has since become true.
StartTimeoutDespiteReady ==
  /\ st.emitted = 1
  /\ ~st.ready
  /\ status.readyz
  /\ "StartTimeout" \in {event_q[i] : i \in 1..Len(event_q)}
  /\ datagrams = MaxDatagrams /\ uds.msgs = <<>>
  /\ ~token /\ ~panicked /\ first_error = "none"

\* C26: after the config writer has changed unit_watchdog_sec, the watchdog
\* timer comes to use the new value as its duration.  The timer takes no
\* step after it has returned, so the claim needs this of the step in which
\* it returns: the duration it has is the configured one.
NewTimeoutUsed ==
  [][(pc["wd"] \in {"wait", "read_cfg", "send"}
      /\ pc'["wd"] \in {"report", "done"})
       => wd.duration = config.unit_watchdog_sec]_vars

\* The config writer has set a watchdog timeout of two seconds and the timer,
\* started disabled, still has its duration of zero.
NewTimeoutUnused ==
  /\ pc["wd"] = "wait"
  /\ wd.duration = 0
  /\ config.unit_watchdog_sec = 2
  /\ pc["cw"] \in {"recv", "done"}

\* The change of the ready barrier.
BarrierChange == Change("SetTrue", "Keep", "Keep")

\* How many changes of the ready barrier a queue holds.
BarrierChanges(q) == Cardinality({i \in 1..Len(q) : q[i] = BarrierChange})

\* C27: the tokens in the ready channel and the tokens the barrier has
\* consumed are as many as the tasks that have sent one, so none has sent
\* two; a task that has not sent its token is at its first poll, at the send
\* of the token, or has returned, and no datagram, request, event, watchdog
\* message, StatusChange or ConfigurationChange is consumed by a task that
\* has not sent it; the barrier submits its change in one step, from its
\* send, with seven tokens consumed and all seven tasks having sent theirs,
\* and takes no step after it; and when a task has returned without sending
\* its token, the barrier has not fired and healthz is false.
ReadyBarrier ==
  /\ [](ready_q + br.count = Cardinality(ready_sent))
  /\ [](\A t \in Tasks :
          t \notin ready_sent =>
            pc[t] \in {"new", "ready", "report", "done", "aborted"})
  /\ [][/\ datagrams' > datagrams => "uds" \in ready_sent
        /\ http_resp' # http_resp => "http" \in ready_sent
        /\ (Len(event_q') < Len(event_q) /\ ~Returned("el")') =>
             "el" \in ready_sent
        /\ (Len(watchdog_q') < Len(watchdog_q) /\ ~Returned("wd")') =>
             "wd" \in ready_sent
        /\ (Len(status_q') < Len(status_q) /\ ~Returned("sw")') =>
             "sw" \in ready_sent
        /\ (Len(config_q') < Len(config_q) /\ ~Returned("cw")') =>
             "cw" \in ready_sent]_vars
  /\ [][BarrierChanges(status_q') > BarrierChanges(status_q) =>
          /\ br.pc = "send" /\ br'.pc = "done"
          /\ br.count = NumHandles /\ ready_sent = Tasks
          /\ status_q' = Append(status_q, BarrierChange)]_vars
  /\ [][br.pc = "done" => br'.pc \in {"done", "aborted"}]_vars
  /\ [](br.pc \in {"send", "done"} => br.count = NumHandles)
  /\ [](\A t \in Tasks :
          (Returned(t) /\ t \notin ready_sent) =>
            /\ br.pc \in {"new", "wait", "aborted"}
            /\ br.count < NumHandles
            /\ ~status.healthz
            /\ BarrierChanges(status_q) = 0)

\* The barrier has consumed the seventh token and submitted its change,
\* which the status writer has not received yet.
BarrierSubmitted ==
  /\ br.pc = "done" /\ br.count = NumHandles
  /\ ready_q = 0 /\ ready_sent = Tasks
  /\ status_q = <<BarrierChange>>
  /\ ~status.healthz

\* The UDS receiver failed to bind its socket and sent no token; the other
\* six tokens are sent and the barrier waits for the seventh.
BarrierWaitsForFailedTask ==
  /\ err["uds"] = "UdsCreateSocket"
  /\ ready_sent = Tasks \ {"uds"}
  /\ br.pc = "wait" /\ br.count = NumHandles - 1

\* The watchdog message the claim names for an event.
ExpectedWatchdogMessage(event) ==
  IF event = "Watchdog" THEN "KeepAlive"
  ELSE IF event = "WatchdogTrigger" THEN "Trigger"
  ELSE IF event = "WatchdogTimeout" THEN "NewTimeout"
  ELSE "None"

NewTimeoutBeforeChange ==
  /\ pc["el"] = "send_status"
  /\ el.event = "WatchdogTimeout"
  /\ watchdog_q = <<"NewTimeout">>

(***************************************************************************)
(* The pipeline from the socket to the status cell on its own: the adapter *)
(* has started, no second passes and no signal arrives while datagrams of  *)
(* one or two event lines are received, dispatched, classified and         *)
(* applied.                                                                *)
(***************************************************************************)
\* How many datagrams the pipeline is given.
MaxPipelineDatagrams == 2

EventLines == { <<"READY", "1">>, <<"RELOADING", "1">>, <<"STOPPING", "1">>,
                <<"WATCHDOG", "1">> }

PipelineDatagrams ==
  { <<l>> : l \in EventLines } \cup
  { <<l1, l2>> : l1 \in EventLines, l2 \in EventLines }

PipelineRecv ==
  \E datagram \in PipelineDatagrams :
    /\ datagrams < MaxPipelineDatagrams
    /\ Receive(datagram)

PipelineNext ==
  \/ PipelineRecv
  \/ UdsDispatch
  \/ UdsSend
  \/ ElRecv
  \/ ElSendWatchdog
  \/ ElSendStatus
  \/ WdRecv
  \/ SwRecv
  \/ SwApplyHealthz
  \/ SwApplyLivez
  \/ SwApplyReadyz

PipelineSpec == ServingInit /\ [][PipelineNext]_vars

\* The events of the messages that have one, in the order of the messages.
RECURSIVE EventsOf(_)
EventsOf(msgs) ==
  IF msgs = <<>> THEN <<>>
  ELSE IF ExpectedEvent(Head(msgs)) = "" THEN EventsOf(Tail(msgs))
  ELSE <<ExpectedEvent(Head(msgs))>> \o EventsOf(Tail(msgs))

\* The left-to-right fold of the listener's changes for the events over a
\* status.
RECURSIVE FoldEvents(_, _, _)
FoldEvents(events, lists, s) ==
  IF events = <<>> THEN s
  ELSE FoldEvents(Tail(events), lists,
                  ApplyChange(ListenerChange(Head(events), lists), s))

\* The listener's changes that are on their way to the status cell: the one
\* the status writer is applying, then the ones in the status channel.
ChangesInFlight ==
  SelectSeq((IF pc["sw"] \in {"apply_healthz", "apply_livez", "apply_readyz"}
             THEN <<sw_change>> ELSE <<>>) \o status_q,
            LAMBDA change : change # Change("SetTrue", "Keep", "Keep"))

\* The events that are on their way to the listener's classification: the
\* one the listener holds, then the ones in the event channel.
EventsInFlight ==
  (IF pc["el"] \in {"send_wd", "send_status"} THEN <<el.event>> ELSE <<>>)
    \o event_q

NoDeadlineNoTimer ==
  /\ [](InitialConfiguration.unit_timeout_start_sec = INFINITY =>
          /\ pc["st"] \in {"new", "ready", "done", "aborted"}
          /\ st.sleep = 0 /\ st.slept = 0 /\ st.sleep_duration = 0
          /\ st.reads = 0 /\ st.emitted = 0
          /\ \A i \in 1..Len(event_q) : event_q[i] # "StartTimeout"
          /\ pc["st"] = "done" => "st" \in ready_sent /\ err["st"] = "Ok"
          /\ ("st" \in ready_sent /\ pc["st"] # "aborted") => pc["st"] = "done")
  /\ [][(InitialConfiguration.unit_timeout_start_sec = INFINITY
         /\ "st" \notin ready_sent /\ "st" \in ready_sent') =>
          pc'["st"] = "done" /\ err'["st"] = "Ok" /\ st'.timeout = INFINITY]_vars

\* The timer without a deadline has returned, and the config writer has
\* since applied an EXTEND_TIMEOUT_USEC change.
ExtendedAfterNoDeadline ==
  /\ st.timeout = INFINITY
  /\ pc["st"] = "done"
  /\ cw.applied = 1
  /\ config.unit_timeout_start_sec = INFINITY

====
